---- MODULE Spec2Model ----
(***************************************************************************)
(* my-badges: the GitHub provider (src/providers/gh/index.ts) and the      *)
(* update entry point.  Text is modelled as a sequence of characters, each *)
(* character a one-character string, so that indexOf, slice and indexing   *)
(* are computed position by position as the JavaScript code computes them. *)
(***************************************************************************)
EXTENDS Integers, Sequences, FiniteSets, TLC

(* ------------------------------ bounds -------------------------------- *)
\* longest document, counted in pieces (a marker, a newline or a letter)
MaxPieces == 4
\* longest badge list handed to generateReadme
MaxBadges == 1
\* successive generateReadme calls on one document
MaxCalls == 2

(* ------------------------ JavaScript string helpers -------------------- *)
\* the value of an absent property or of an index outside the string
undefined == "undefined"

\* s[i], 0-based
At(s, i) == IF i >= 0 /\ i < Len(s) THEN s[i + 1] ELSE undefined

\* String.prototype.indexOf: the first 0-based position of sub in s, or -1
indexOf(s, sub) ==
  LET hits == {i \in 0..(Len(s) - Len(sub)) : SubSeq(s, i + 1, i + Len(sub)) = sub}
  IN IF hits = {} THEN -1 ELSE CHOOSE i \in hits : \A j \in hits : i <= j

\* a relative index of String.prototype.slice, clamped into 0..Len(s)
sliceIndex(s, i) ==
  IF i < 0 THEN (IF Len(s) + i < 0 THEN 0 ELSE Len(s) + i)
  ELSE IF i > Len(s) THEN Len(s) ELSE i

\* String.prototype.slice(from, to)
slice(s, from, to) == SubSeq(s, sliceIndex(s, from) + 1, sliceIndex(s, to))

\* String.prototype.slice(from)
sliceFrom(s, from) == SubSeq(s, sliceIndex(s, from) + 1, Len(s))

RECURSIVE join(_, _)
\* Array.prototype.join
join(parts, sep) ==
  IF parts = <<>> THEN <<>>
  ELSE IF Len(parts) = 1 THEN parts[1]
  ELSE parts[1] \o sep \o join(Tail(parts), sep)

RECURSIVE flat(_)
\* the concatenation of a sequence of texts
flat(parts) == IF parts = <<>> THEN <<>> ELSE parts[1] \o flat(Tail(parts))

Min(a, b) == IF a < b THEN a ELSE b
Max(a, b) == IF a < b THEN b ELSE a

Digits == {"0", "1", "2", "3", "4", "5", "6", "7", "8", "9"}

NaN ==
  <<"N","a","N">>

RECURSIVE digitPrefix(_)
digitPrefix(s) ==
  IF s # <<>> /\ s[1] \in Digits THEN <<s[1]>> \o digitPrefix(Tail(s)) ELSE <<>>

\* parseInt(size + ''), printed back into the template: the leading digits
parseInt(s) == IF digitPrefix(s) = <<>> THEN NaN ELSE digitPrefix(s)

(* ------------------------------- badges -------------------------------- *)
\* A badge's id, image, desc and body are one-character strings here, so a
\* value is placed into a text as the character it is.
ampEntity ==
  <<"&","a","m","p",";">>
quotEntity ==
  <<"&","q","u","o","t",";">>
ltEntity ==
  <<"&","l","t",";">>
gtEntity ==
  <<"&","g","t",";">>

\* utils.quoteAttr on one character
quoteChar(c) ==
  CASE c = "&" -> ampEntity
    [] c = "\"" -> quotEntity
    [] c = "<" -> ltEntity
    [] c = ">" -> gtEntity
    [] OTHER -> <<c>>

\* utils.quoteAttr(badge.desc)
quoteAttr(desc) == quoteChar(desc)

badgeA == [id |-> "a", tier |-> 1, desc |-> "d", body |-> "t", image |-> "i"]
badgeB == [id |-> "b", tier |-> 2, desc |-> "\"", body |-> "u", image |-> "j"]
Badges == {badgeA, badgeB}

\* the badge lists of length at most n
BadgeListsUpTo(n) == UNION {[1..k -> Badges] : k \in 0..n}

\* size as the string size + ''
Sizes == {<<"6", "4">>, <<"3", "2", "p", "x">>}

(* ---------------------------- generateReadme --------------------------- *)
startString ==
  <<"<","!","-","-"," ","m","y","-","b","a","d","g","e","s"," ","s","t","a","r","t"," ","-",
    "-",">">>
endString ==
  <<"<","!","-","-"," ","m","y","-","b","a","d","g","e","s"," ","e","n","d"," ","-","-",">">>
header ==
  <<"<","h","4",">","<","a"," ","h","r","e","f","=","\"","h","t","t","p","s",":","/","/",
    "g","i","t","h","u","b",".","c","o","m","/","m","y","-","b","a","d","g","e","s","/","m",
    "y","-","b","a","d","g","e","s","\"",">","M","y"," ","B","a","d","g","e","s","<","/",
    "a",">","<","/","h","4",">","\n","\n">>
thumbHref ==
  <<"<","a"," ","h","r","e","f","=","\"","m","y","-","b","a","d","g","e","s","/">>
thumbSrc ==
  <<".","m","d","\"",">","<","i","m","g"," ","s","r","c","=","\"">>
thumbAlt ==
  <<"\""," ","a","l","t","=","\"">>
thumbTitle ==
  <<"\""," ","t","i","t","l","e","=","\"">>
thumbWidth ==
  <<"\""," ","w","i","d","t","h","=","\"">>
thumbClose ==
  <<"\"",">","<","/","a",">">>

\* one link-wrapped image
thumbnail(badge, size) ==
  thumbHref \o <<badge.id>> \o thumbSrc \o <<badge.image>> \o thumbAlt
    \o quoteAttr(badge.desc) \o thumbTitle \o quoteAttr(badge.desc)
    \o thumbWidth \o parseInt(size) \o thumbClose

badgesHtml(badges, size) ==
  join([i \in 1..Len(badges) |-> thumbnail(badges[i], size)], <<"\n">>)

needToAddNewLine(content, end) == At(content, end + Len(endString) + 1) # "\n"

\* (mutant) the rewrite runs as soon as one marker was found
markersFoundEither(start, end) == start # -1 \/ end # -1

\* the guard of the rewrite: both markers were found
markersFound(start, end) == start # -1 /\ end # -1

\* the regenerated block, from the start marker to the end marker
block(badges, size) ==
  startString \o <<"\n">> \o header \o badgesHtml(badges, size) \o <<"\n">> \o endString

\* (mutant) the new block is put in front of the old one, which stays
generateReadmeKeeping(readme, badges, size) ==
  LET start == indexOf(readme, startString)
      end == indexOf(readme, endString)
      addNewLine == needToAddNewLine(readme, end)
  IN IF markersFound(start, end)
     THEN slice(readme, 0, start) \o block(badges, size)
            \o (IF addNewLine THEN <<"\n">> ELSE <<>>) \o sliceFrom(readme, start)
     ELSE readme

generateReadme(readme, badges, size) ==
  LET start == indexOf(readme, startString)
      end == indexOf(readme, endString)
      addNewLine == needToAddNewLine(readme, end)
      cut == slice(readme, 0, start) \o sliceFrom(readme, end + Len(endString))
  IN IF markersFound(start, end)
     THEN slice(cut, 0, start) \o block(badges, size)
            \o (IF addNewLine THEN <<"\n">> ELSE <<>>) \o sliceFrom(cut, start)
     ELSE readme

(* ------------------------- the badge manifest -------------------------- *)
\* JSON text is modelled token by token: brackets, quoted keys and literals.
\* A badge is a record; a property that is undefined is a missing field.
Keys == <<"id", "tier", "desc", "body", "image">>

Tiers == 0..2

quote(v) == "\"" \o v \o "\""

StringValues == UNION {{b.id, b.desc, b.body, b.image} : b \in Badges}

literal(k, v) == IF k = "tier" THEN ToString(v) ELSE quote(v)

\* one "key": value member, nothing for an undefined property
jsonMember(b, k) == IF k \in DOMAIN b THEN <<quote(k), literal(k, b[k])>> ELSE <<>>

jsonObject(b) ==
  <<"{">> \o flat([i \in 1..Len(Keys) |-> jsonMember(b, Keys[i])]) \o <<"}">>

\* JSON.stringify(badges, null, 2)
JSONstringify(badges) ==
  <<"[">> \o flat([i \in 1..Len(badges) |-> jsonObject(badges[i])]) \o <<"]">>

KeySet == {Keys[i] : i \in 1..Len(Keys)}

literalOk(k, lit) ==
  IF k = "tier" THEN \E n \in Tiers : ToString(n) = lit
  ELSE \E v \in StringValues : quote(v) = lit

valueOf(k, lit) ==
  IF k = "tier" THEN CHOOSE n \in Tiers : ToString(n) = lit
  ELSE CHOOSE v \in StringValues : quote(v) = lit

keyOk(t) == \E k \in KeySet : quote(k) = t
keyOf(t) == CHOOSE k \in KeySet : quote(k) = t

membersOk(m) ==
  /\ Len(m) % 2 = 0
  /\ \A i \in 1..(Len(m) \div 2) :
       keyOk(m[2 * i - 1]) /\ literalOk(keyOf(m[2 * i - 1]), m[2 * i])

\* the object of a member list; a repeated key keeps its last value
parseMembers(m) ==
  LET n == Len(m) \div 2
      last(k) == CHOOSE i \in 1..n :
                   /\ keyOf(m[2 * i - 1]) = k
                   /\ \A j \in (i + 1)..n : keyOf(m[2 * j - 1]) # k
  IN [k \in {keyOf(m[2 * i - 1]) : i \in 1..n} |-> valueOf(k, m[2 * last(k)])]

RECURSIVE objectsOk(_)
objectsOk(t) ==
  \/ t = <<>>
  \/ /\ t[1] = "{"
     /\ indexOf(t, <<"}">>) # -1
     /\ membersOk(SubSeq(t, 2, indexOf(t, <<"}">>)))
     /\ objectsOk(sliceFrom(t, indexOf(t, <<"}">>) + 1))

RECURSIVE parseObjects(_)
parseObjects(t) ==
  IF t = <<>> THEN <<>>
  ELSE <<parseMembers(SubSeq(t, 2, indexOf(t, <<"}">>)))>>
         \o parseObjects(sliceFrom(t, indexOf(t, <<"}">>) + 1))

\* JSON.parse(text): the array of badge objects, or the SyntaxError it throws
JSONparse(text) ==
  IF /\ Len(text) >= 2
     /\ text[1] = "["
     /\ text[Len(text)] = "]"
     /\ objectsOk(SubSeq(text, 2, Len(text) - 1))
  THEN [error |-> "none", value |-> parseObjects(SubSeq(text, 2, Len(text) - 1))]
  ELSE [error |-> "SyntaxError", value |-> <<>>]

(* --------------------------- transport encoding ------------------------ *)
encodeBase64(s) == <<"base64">> \o s

decodeBase64(e) == IF e # <<>> /\ e[1] = "base64" THEN Tail(e) ELSE <<>>

(* ------------------------------ the stores ----------------------------- *)
MY_BADGES_JSON_PATH == "my-badges/my-badges.json"

badgePath(id) == "my-badges/" \o id \o ".md"

\* the logical content paths updateBadges can sync
ContentPaths ==
  {MY_BADGES_JSON_PATH, "readme.md"} \cup {badgePath(b.id) : b \in Badges}

\* the file the repository's README really is
README_FILE == "README.md"

RemotePaths == ContentPaths \cup {README_FILE}

DATA_FILE == "data.json"

dataCachePath(user) == "data/" \o user \o ".json"

LocalPaths == ContentPaths \cup {DATA_FILE, "missing.json", dataCachePath("u")}

NoFile == [exists |-> FALSE, content |-> <<>>, version |-> 0]

File(text, version) == [exists |-> TRUE, content |-> text, version |-> version]

(* ------------------------------ more bounds ---------------------------- *)
\* longest badge list presentBadges computes
MaxPresented == 1
\* calls of update in one behaviour
MaxRuns == 2
\* interference in one behaviour: commits another writer makes to the README
\* plus transport and file-system failures (status 500, EIO)
MaxInterference == 1

(* ------------------------------ variables ------------------------------ *)
\* generateReadme alone: doc is the document the calls started from, readme
\* the argument of the last call, content its result, lastBadges and lastSize
\* its other arguments
VARIABLES doc, readme, content, lastBadges, lastSize, calls

\* the environment: the invocation (argv, env), the repository's files, the
\* files under cwd, and how often something has interfered
VARIABLES argv, env, remote, localFs, interference

\* one call of update: its normalized options, its position, the error it
\* failed with, what getBadges read and returned, the list presentBadges
\* returned, what updateBadges read as the README, the upserts of Promise.all
\* (by content path), the requests and file operations issued so far
VARIABLES run, opts, pc, error, manifestRead, userBadges, badges, oldReadme,
          tasks, requests

\* the previous call of update as it ended, and the interference counts at
\* the start of this call
VARIABLES prev, mark

readmeVars == <<doc, readme, content, lastBadges, lastSize, calls>>

envVars == <<argv, env, remote, localFs, interference>>

runVars ==
  <<run, opts, pc, error, manifestRead, userBadges, badges, oldReadme, tasks,
    requests, prev, mark>>

vars == <<readmeVars, envVars, runVars>>

(* ------------------------------ normalizeOpts -------------------------- *)
\* String.prototype.split('/', 2) on the repository names this model uses
splitRepository(repository) ==
  CASE repository = "o/r" -> <<"o", "r">>
    [] OTHER -> <<repository, undefined>>

normalizeOpts(a, e) ==
  LET repository == IF a.repo # undefined THEN a.repo ELSE e.GITHUB_REPO
      user == IF a.user # undefined THEN a.user
              ELSE IF a.positional # undefined THEN a.positional
              ELSE e.GITHUB_USER
      ownerRepo == IF repository # undefined THEN splitRepository(repository)
                   ELSE <<user, user>>
  IN [owner |-> ownerRepo[1], repo |-> ownerRepo[2], user |-> user,
      size |-> a.size, dryrun |-> a.dryrun, dataPath |-> a.data]

(* --------------------------------- read -------------------------------- *)
\* a primitive string: it carries no sha and no path
Str(text) == [text |-> text, sha |-> undefined, path |-> undefined]

shaOf(path) == path \o "@" \o ToString(remote[path].version)

\* the repository the requests address exists only when owner and repo are set
repoExists(o) == o.owner # undefined /\ o.repo # undefined

\* the file GET /repos/{owner}/{repo}/readme serves
readmeFile == IF remote[README_FILE].exists THEN README_FILE ELSE "readme.md"

NoResponse(status) ==
  [status |-> status, content |-> <<>>, sha |-> undefined, path |-> undefined]

\* the answer to GET .../readme or GET .../contents/{path}
remoteGet(o, contentPath) ==
  LET file == IF contentPath = "readme.md" THEN readmeFile ELSE contentPath
  IN IF repoExists(o) /\ remote[file].exists
     THEN [status |-> "200", content |-> encodeBase64(remote[file].content),
           sha |-> shaOf(file), path |-> file]
     ELSE NoResponse("404")

\* the outcome of fs.readFile(path.resolve(cwd, contentPath), 'utf8')
fsRead(contentPath) ==
  IF localFs[contentPath].exists
  THEN [status |-> "ok", content |-> localFs[contentPath].content,
        sha |-> undefined, path |-> undefined]
  ELSE NoResponse("ENOENT")

\* what the environment may answer to the read of contentPath
Responses(o, dryrun, contentPath) ==
  {IF dryrun THEN fsRead(contentPath) ELSE remoteGet(o, contentPath)}
    \cup (IF interference < MaxInterference
          THEN {NoResponse(IF dryrun THEN "EIO" ELSE "500")} ELSE {})

IsFault(status) == status \in {"500", "EIO"}

\* (mutant) read hands back the transport encoding undecoded
readUndecoded(dryrun, resp) ==
  IF resp.status \notin {"200", "ok"} THEN Str(<<>>)
  ELSE IF dryrun THEN Str(resp.content)
  ELSE [text |-> resp.content, sha |-> resp.sha, path |-> resp.path]

\* read(opts), given the environment's answer
read(dryrun, resp) ==
  IF resp.status \notin {"200", "ok"} THEN Str(<<>>)
  ELSE IF dryrun THEN Str(resp.content)
  ELSE [text |-> decodeBase64(resp.content), sha |-> resp.sha, path |-> resp.path]

\* the request or file operation a read issues
readRequest(dryrun, contentPath, resp, by) ==
  [target |-> IF dryrun THEN "local" ELSE "remote",
   method |-> IF dryrun THEN "readFile" ELSE "GET",
   endpoint |-> IF dryrun THEN "fs"
                ELSE IF contentPath = "readme.md" THEN "readme" ELSE "contents",
   path |-> contentPath, contentPath |-> contentPath, sha |-> undefined,
   message |-> "", body |-> <<>>, status |-> resp.status, by |-> by]

(* ------------------------------- getBadges ----------------------------- *)
\* the arguments getSnapshot passes to provider.getBadges
getBadgesArgs(o) == [user |-> o.user, repo |-> o.repo, owner |-> o.owner]

\* the dryrun parameter of getBadges, false by default
getBadgesDryrun(args) == IF "dryrun" \in DOMAIN args THEN args.dryrun ELSE FALSE

\* (mutant) a badge without tier is returned as it was stored
withTierMissing(b) == b

\* if (b.tier === undefined) b.tier = 0
withTier(b) ==
  IF "tier" \in DOMAIN b THEN b
  ELSE [k \in DOMAIN b \cup {"tier"} |-> IF k = "tier" THEN 0 ELSE b[k]]

\* the catch clause rethrows a RequestError whose status is not 404
rethrown(err) == err.name = "RequestError" /\ err.status # "404"

\* getBadges once read has returned: read catches every error itself, so the
\* try block can only throw what JSON.parse throws
getBadges(_content) ==
  LET parsed == JSONparse(_content.text)
      err == [name |-> parsed.error, status |-> undefined]
  IN IF parsed.error = "none"
     THEN [threw |-> "none",
           badges |-> [i \in 1..Len(parsed.value) |-> withTier(parsed.value[i])]]
     ELSE IF rethrown(err) THEN [threw |-> err.name, badges |-> <<>>]
     ELSE [threw |-> "none", badges |-> <<>>]

(* --------------------------- updateBadges, upsert ---------------------- *)
\* the per-badge page
page(badge) ==
  <<"<img src=\"", badge.image, "\" alt=\"">> \o quoteAttr(badge.desc)
    \o <<"\" title=\"">> \o quoteAttr(badge.desc)
    \o <<"\" width=\"128\">\n", "<strong>">> \o quoteAttr(badge.desc)
    \o <<"</strong>\n", "<br><br>\n\n", badge.body, "\n\n\n",
         "Created by <a href=\"https://github.com/my-badges/my-badges\">My Badges</a>">>

\* (mutant) the pages of the badges that are not in the list are emptied
uploadsClearingStale(bs, newReadme) ==
  LET ids == {bs[i].id : i \in 1..Len(bs)}
      lastOf(id) == CHOOSE i \in 1..Len(bs) :
                      bs[i].id = id /\ \A j \in (i + 1)..Len(bs) : bs[j].id # id
      byPath(p) == CHOOSE b \in Badges : badgePath(b.id) = p
  IN [p \in ContentPaths |->
        IF p = MY_BADGES_JSON_PATH THEN JSONstringify(bs)
        ELSE IF p = "readme.md" THEN newReadme
        ELSE IF byPath(p).id \in ids THEN page(bs[lastOf(byPath(p).id)])
        ELSE <<>>]

\* the uploads record: a later badge with the same id replaces an earlier one
uploads(bs, newReadme) ==
  LET ids == {bs[i].id : i \in 1..Len(bs)}
      lastOf(id) == CHOOSE i \in 1..Len(bs) :
                      bs[i].id = id /\ \A j \in (i + 1)..Len(bs) : bs[j].id # id
      byPath(p) == CHOOSE id \in ids : badgePath(id) = p
  IN [p \in {MY_BADGES_JSON_PATH, "readme.md"} \cup {badgePath(id) : id \in ids} |->
        IF p = MY_BADGES_JSON_PATH THEN JSONstringify(bs)
        ELSE IF p = "readme.md" THEN newReadme
        ELSE page(bs[lastOf(byPath(p))])]

NoTask == [pc |-> "none", content |-> <<>>, _content |-> Str(<<>>), status |-> ""]

NoTasks == [p \in ContentPaths |-> NoTask]

Settled == \A p \in ContentPaths : tasks[p].pc \in {"none", "done", "failed"}

\* content.toString() == _content.toString() fails: upsert goes on to upload
differs(text, _content) == text # _content.text

\* (mutant) the write reuses the sha updateBadges read for the README
assignedStale(text, _content) ==
  [text |-> text, sha |-> oldReadme.sha, path |-> _content.path]

\* Object.assign(content, { sha: _content.sha, path: _content.path })
assigned(text, _content) ==
  [text |-> text, sha |-> _content.sha, path |-> _content.path]

\* (mutant) the commit message has 'updated' and 'added' the wrong way round
uploadInverted(dryrun, contentPath, c) ==
  IF dryrun
  THEN [target |-> "local", method |-> "writeFile", endpoint |-> "fs",
        path |-> contentPath, contentPath |-> contentPath, sha |-> undefined,
        message |-> "", body |-> c.text, status |-> "sent", by |-> "upsert"]
  ELSE [target |-> "remote", method |-> "PUT", endpoint |-> "contents",
        path |-> IF c.path # undefined THEN c.path ELSE contentPath,
        contentPath |-> contentPath, sha |-> c.sha,
        message |-> "chore: " \o contentPath
                      \o (IF c.sha # undefined THEN " added" ELSE " updated"),
        body |-> encodeBase64(c.text), status |-> "sent", by |-> "upsert"]

\* (mutant) the PUT always goes to the logical content path
uploadToContentPath(dryrun, contentPath, c) ==
  IF dryrun
  THEN [target |-> "local", method |-> "writeFile", endpoint |-> "fs",
        path |-> contentPath, contentPath |-> contentPath, sha |-> undefined,
        message |-> "", body |-> c.text, status |-> "sent", by |-> "upsert"]
  ELSE [target |-> "remote", method |-> "PUT", endpoint |-> "contents",
        path |-> contentPath,
        contentPath |-> contentPath, sha |-> c.sha,
        message |-> "chore: " \o contentPath
                      \o (IF c.sha # undefined THEN " updated" ELSE " added"),
        body |-> encodeBase64(c.text), status |-> "sent", by |-> "upsert"]

\* the write upload issues for content c (text, sha, path) of contentPath
upload(dryrun, contentPath, c) ==
  IF dryrun
  THEN [target |-> "local", method |-> "writeFile", endpoint |-> "fs",
        path |-> contentPath, contentPath |-> contentPath, sha |-> undefined,
        message |-> "", body |-> c.text, status |-> "sent", by |-> "upsert"]
  ELSE [target |-> "remote", method |-> "PUT", endpoint |-> "contents",
        path |-> IF c.path # undefined THEN c.path ELSE contentPath,
        contentPath |-> contentPath, sha |-> c.sha,
        message |-> "chore: " \o contentPath
                      \o (IF c.sha # undefined THEN " updated" ELSE " added"),
        body |-> encodeBase64(c.text), status |-> "sent", by |-> "upsert"]

\* the repository accepts a PUT that creates a file, or that names the sha of
\* the file it replaces
accepts(o, req) ==
  /\ repoExists(o)
  /\ IF remote[req.path].exists THEN req.sha = shaOf(req.path)
     ELSE req.sha = undefined

(* ------------------------------- the run ------------------------------- *)
fileOperation(method, path, status, by) ==
  [target |-> "local", method |-> method, endpoint |-> "fs", path |-> path,
   contentPath |-> path, sha |-> undefined, message |-> "", body |-> <<>>,
   status |-> status, by |-> by]

\* the requests provider.getData (collect) sends for the user's profile
collectRequest(status) ==
  [target |-> "remote", method |-> "GET", endpoint |-> "collect", path |-> "",
   contentPath |-> "", sha |-> undefined, message |-> "", body |-> <<>>,
   status |-> status, by |-> "getData"]

\* what is kept of an upsert once update is called again
Ended(t) == [pc |-> t.pc, content |-> t.content, wrote |-> differs(t.content, t._content)]

NoRun ==
  [pc |-> "idle", badges |-> <<>>, userBadges |-> <<>>,
   tasks |-> [p \in ContentPaths |-> Ended(NoTask)], mark |-> 0]

\* update is called: normalizeOpts, then getSnapshot starts
Update ==
  /\ pc \in {"idle", "done", "failed"}
  /\ Settled
  /\ run < MaxRuns
  /\ run' = run + 1
  /\ opts' = normalizeOpts(argv, env)
  /\ prev' = [pc |-> pc, badges |-> badges, userBadges |-> userBadges,
              tasks |-> [p \in ContentPaths |-> Ended(tasks[p])], mark |-> mark]
  /\ mark' = interference
  /\ pc' = "getData"
  /\ error' = "none"
  /\ manifestRead' = [status |-> "", text |-> <<>>]
  /\ userBadges' = <<>>
  /\ badges' = <<>>
  /\ oldReadme' = Str(<<>>)
  /\ tasks' = NoTasks
  /\ requests' = {}
  /\ UNCHANGED <<readmeVars, envVars>>

\* getData
GetData ==
  /\ pc = "getData"
  /\ \/ /\ opts.dataPath # ""
        /\ ~localFs[opts.dataPath].exists
        /\ pc' = "failed"
        /\ error' = "Data file not found"
        /\ UNCHANGED <<requests, localFs, interference>>
     \/ /\ opts.dataPath # ""
        /\ localFs[opts.dataPath].exists
        /\ pc' = "getBadges"
        /\ requests' = requests \cup {fileOperation("readFile", opts.dataPath, "ok", "getData")}
        /\ UNCHANGED <<error, localFs, interference>>
     \/ /\ opts.dataPath = ""
        /\ opts.user = undefined
        /\ pc' = "failed"
        /\ error' = "Specify username"
        /\ UNCHANGED <<requests, localFs, interference>>
     \/ /\ opts.dataPath = ""
        /\ opts.user # undefined
        /\ pc' = "getBadges"
        /\ requests' = requests \cup
             {collectRequest("200"),
              fileOperation("writeFile", dataCachePath(opts.user), "ok", "getData")}
        /\ localFs' = [localFs EXCEPT ![dataCachePath(opts.user)] = File(<<"data">>, 0)]
        /\ UNCHANGED <<error, interference>>
     \/ /\ opts.dataPath = ""
        /\ opts.user # undefined
        /\ interference < MaxInterference
        /\ interference' = interference + 1
        /\ pc' = "failed"
        /\ error' = "RequestError"
        /\ requests' = requests \cup {collectRequest("500")}
        /\ UNCHANGED localFs
  /\ UNCHANGED <<readmeVars, argv, env, remote, run, opts, manifestRead,
                 userBadges, badges, oldReadme, tasks, prev, mark>>

\* the rest of getSnapshot: provider.getBadges, or [] without owner and repo
GetBadges ==
  /\ pc = "getBadges"
  /\ \/ /\ opts.owner # undefined /\ opts.repo # undefined
        /\ LET dryrun == getBadgesDryrun(getBadgesArgs(opts))
           IN \E resp \in Responses(opts, dryrun, MY_BADGES_JSON_PATH) :
                LET _content == read(dryrun, resp)
                    result == getBadges(_content)
                IN /\ manifestRead' = [status |-> resp.status, text |-> _content.text]
                   /\ userBadges' = result.badges
                   /\ requests' = requests \cup
                        {readRequest(dryrun, MY_BADGES_JSON_PATH, resp, "getBadges")}
                   /\ interference' = interference + (IF IsFault(resp.status) THEN 1 ELSE 0)
                   /\ pc' = IF result.threw = "none" THEN "present" ELSE "failed"
                   /\ error' = result.threw
     \/ /\ ~(opts.owner # undefined /\ opts.repo # undefined)
        /\ userBadges' = <<>>
        /\ pc' = "present"
        /\ UNCHANGED <<manifestRead, requests, interference, error>>
  /\ UNCHANGED <<readmeVars, argv, env, remote, localFs, run, opts, badges,
                 oldReadme, tasks, prev, mark>>

\* the badges presentBadges can compute, in catalog order
Catalog == <<badgeA, badgeB>>

\* the lists presentBadges computes: the first k badges of the catalog
PresentedLists ==
  {SubSeq(Catalog, 1, k) : k \in 0..Min(MaxPresented, Len(Catalog))}

\* presentBadges (not part of this model) returns a computed list, or the
\* published list as it was loaded
PresentBadges ==
  /\ pc = "present"
  /\ badges' \in PresentedLists \cup {userBadges}
  /\ pc' = "updateBadges"
  /\ UNCHANGED <<readmeVars, envVars, run, opts, error, manifestRead, userBadges,
                 oldReadme, tasks, requests, prev, mark>>

\* updateBadges up to Promise.all: the README is read and rendered, and every
\* upsert is started (each has sent its read)
UpdateBadges ==
  /\ pc = "updateBadges"
  /\ \E resp \in Responses(opts, opts.dryrun, "readme.md") :
       LET _content == read(opts.dryrun, resp)
           ups == uploads(badges, generateReadme(_content.text, badges, opts.size))
       IN /\ oldReadme' = _content
          /\ tasks' = [p \in ContentPaths |->
                         IF p \in DOMAIN ups
                         THEN [NoTask EXCEPT !.pc = "read", !.content = ups[p]]
                         ELSE NoTask]
          /\ requests' = requests \cup
               {readRequest(opts.dryrun, "readme.md", resp, "updateBadges")}
          /\ interference' = interference + (IF IsFault(resp.status) THEN 1 ELSE 0)
  /\ pc' = "upserts"
  /\ UNCHANGED <<readmeVars, argv, env, remote, localFs, run, opts, error,
                 manifestRead, userBadges, badges, prev, mark>>

\* (mutant) a read that fails for another reason than not-found rejects the
\* upsert
UpsertReadFatal(p) ==
  /\ tasks[p].pc = "read"
  /\ \E resp \in Responses(opts, opts.dryrun, p) :
       LET _content == read(opts.dryrun, resp)
           t == tasks[p]
           write == differs(t.content, _content) /\ ~IsFault(resp.status)
       IN /\ tasks' = [tasks EXCEPT ![p] =
                         [t EXCEPT !._content = _content, !.status = resp.status,
                                   !.pc = IF IsFault(resp.status) THEN "failed"
                                          ELSE IF write THEN "upload" ELSE "done"]]
          /\ requests' = requests
               \cup {readRequest(opts.dryrun, p, resp, "upsert")}
               \cup (IF write
                     THEN {upload(opts.dryrun, p, assigned(t.content, _content))}
                     ELSE {})
          /\ interference' = interference + (IF IsFault(resp.status) THEN 1 ELSE 0)
  /\ UNCHANGED <<readmeVars, argv, env, remote, localFs, run, opts, pc,
                 error, manifestRead, userBadges, badges, oldReadme, prev, mark>>

\* upsert(contentPath): its read returns, the contents are compared and, when
\* they differ, upload sends the write
UpsertRead(p) ==
  /\ tasks[p].pc = "read"
  /\ \E resp \in Responses(opts, opts.dryrun, p) :
       LET _content == read(opts.dryrun, resp)
           t == tasks[p]
           write == differs(t.content, _content)
       IN /\ tasks' = [tasks EXCEPT ![p] =
                         [t EXCEPT !._content = _content, !.status = resp.status,
                                   !.pc = IF write THEN "upload" ELSE "done"]]
          /\ requests' = requests
               \cup {readRequest(opts.dryrun, p, resp, "upsert")}
               \cup (IF write
                     THEN {upload(opts.dryrun, p, assigned(t.content, _content))}
                     ELSE {})
          /\ interference' = interference + (IF IsFault(resp.status) THEN 1 ELSE 0)
  /\ UNCHANGED <<readmeVars, argv, env, remote, localFs, run, opts, pc,
                 error, manifestRead, userBadges, badges, oldReadme, prev, mark>>

\* the write of upsert(contentPath) reaches the store
UpsertUpload(p) ==
  /\ tasks[p].pc = "upload"
  /\ LET req == upload(opts.dryrun, p, assigned(tasks[p].content, tasks[p]._content))
         ends(how) == tasks' = [tasks EXCEPT ![p].pc = how]
     IN \/ /\ interference < MaxInterference
           /\ interference' = interference + 1
           /\ ends("failed")
           /\ UNCHANGED <<remote, localFs>>
        \/ /\ opts.dryrun
           /\ localFs' = [localFs EXCEPT ![req.path] = File(req.body, 0)]
           /\ ends("done")
           /\ UNCHANGED <<remote, interference>>
        \/ /\ ~opts.dryrun
           /\ accepts(opts, req)
           /\ remote' = [remote EXCEPT ![req.path] =
                           File(decodeBase64(req.body), remote[req.path].version + 1)]
           /\ ends("done")
           /\ UNCHANGED <<localFs, interference>>
        \/ /\ ~opts.dryrun
           /\ ~accepts(opts, req)
           /\ ends("failed")
           /\ UNCHANGED <<remote, localFs, interference>>
  /\ UNCHANGED <<readmeVars, argv, env, run, opts, pc, error, manifestRead,
                 userBadges, badges, oldReadme, requests, prev, mark>>

\* (mutant) updateBadges returns as soon as one upsert has completed
UpdateDoneEarly ==
  /\ pc = "upserts"
  /\ \E p \in ContentPaths : tasks[p].pc = "done"
  /\ pc' = "done"
  /\ UNCHANGED <<readmeVars, envVars, run, opts, error, manifestRead, userBadges,
                 badges, oldReadme, tasks, requests, prev, mark>>

\* Promise.all resolves: updateBadges and update return
UpdateDone ==
  /\ pc = "upserts"
  /\ \A p \in ContentPaths : tasks[p].pc \in {"none", "done"}
  /\ pc' = "done"
  /\ UNCHANGED <<readmeVars, envVars, run, opts, error, manifestRead, userBadges,
                 badges, oldReadme, tasks, requests, prev, mark>>

\* (mutant) the rejection of an upsert is caught and update returns normally
UpdateFailSwallowed ==
  /\ pc = "upserts"
  /\ \E p \in ContentPaths : tasks[p].pc = "failed"
  /\ pc' = "done"
  /\ error' = "none"
  /\ UNCHANGED <<readmeVars, envVars, run, opts, manifestRead, userBadges, badges,
                 oldReadme, tasks, requests, prev, mark>>

\* Promise.all rejects with the first upsert that fails; the others go on
UpdateFail ==
  /\ pc = "upserts"
  /\ \E p \in ContentPaths : tasks[p].pc = "failed"
  /\ pc' = "failed"
  /\ error' = "write failed"
  /\ UNCHANGED <<readmeVars, envVars, run, opts, manifestRead, userBadges, badges,
                 oldReadme, tasks, requests, prev, mark>>

EditDocs == {startString \o endString \o <<"x">>}

\* another writer commits a new README while the upserts run
ExternalEdit ==
  /\ pc = "upserts"
  /\ interference < MaxInterference
  /\ \E d \in EditDocs :
       remote' = [remote EXCEPT ![README_FILE] = File(d, remote[README_FILE].version + 1)]
  /\ interference' = interference + 1
  /\ UNCHANGED <<readmeVars, argv, env, localFs, runVars>>

(* ------------------------------ initial states ------------------------- *)
Argv(user, positional, data, dryrun) ==
  [user |-> user, positional |-> positional, repo |-> undefined, data |-> data,
   size |-> <<"6", "4">>, dryrun |-> dryrun]

Env(repository, user) == [GITHUB_REPO |-> repository, GITHUB_USER |-> user]

\* update for user u against the repository or as a dry run; without any
\* user; from a data file that is missing; from a data file without a user
Invocations ==
  {[argv |-> Argv("u", undefined, "", FALSE), env |-> Env(undefined, undefined)],
   [argv |-> Argv("u", undefined, "", TRUE), env |-> Env(undefined, undefined)],
   [argv |-> Argv(undefined, undefined, "", FALSE), env |-> Env(undefined, undefined)],
   [argv |-> Argv("u", undefined, "missing.json", FALSE), env |-> Env(undefined, undefined)],
   [argv |-> Argv(undefined, undefined, DATA_FILE, TRUE), env |-> Env(undefined, undefined)],
   [argv |-> Argv(undefined, undefined, DATA_FILE, FALSE), env |-> Env(undefined, undefined)]}

\* a manifest written before badges had tiers, next to one that has its tier
legacyBadge == [id |-> "a", desc |-> "d", body |-> "t", image |-> "i"]

legacyManifest == File(JSONstringify(<<legacyBadge, badgeB>>), 1)

\* a manifest that lists one id twice
repeatedManifest == File(JSONstringify(<<badgeB, [badgeB EXCEPT !.body = "t"]>>), 1)

\* the repositories update starts on: the README and the manifest
Repositories ==
  {[readme |-> NoFile, manifest |-> NoFile],
   [readme |-> NoFile, manifest |-> repeatedManifest],
   [readme |-> File(startString \o endString, 1), manifest |-> NoFile],
   [readme |-> File(startString \o endString \o <<"\n">>, 1), manifest |-> legacyManifest],
   [readme |-> File(<<"x">>, 1), manifest |-> legacyManifest]}

IdleRun ==
  /\ run = 0
  /\ opts = normalizeOpts(argv, env)
  /\ pc = "idle"
  /\ error = "none"
  /\ manifestRead = [status |-> "", text |-> <<>>]
  /\ userBadges = <<>>
  /\ badges = <<>>
  /\ oldReadme = Str(<<>>)
  /\ tasks = NoTasks
  /\ requests = {}
  /\ prev = NoRun
  /\ mark = 0

NoReadmeCalls ==
  /\ doc = <<>>
  /\ readme = <<>>
  /\ content = <<>>
  /\ lastBadges = <<>>
  /\ lastSize = <<"6", "4">>
  /\ calls = 0

\* the working directory holds the data file and a copy of the README
Init ==
  /\ \E i \in Invocations : argv = i.argv /\ env = i.env
  /\ \E r \in Repositories :
       /\ remote = [p \in RemotePaths |->
                      IF p = README_FILE THEN r.readme
                      ELSE IF p = MY_BADGES_JSON_PATH THEN r.manifest ELSE NoFile]
       /\ localFs = [p \in LocalPaths |->
                       IF p = "readme.md" THEN [r.readme EXCEPT !.version = 0]
                       ELSE IF p = DATA_FILE THEN File(<<"data">>, 0) ELSE NoFile]
  /\ interference = 0
  /\ IdleRun
  /\ NoReadmeCalls

Next ==
  \/ Update
  \/ GetData
  \/ GetBadges
  \/ PresentBadges
  \/ UpdateBadges
  \/ \E p \in ContentPaths : UpsertRead(p)
  \/ \E p \in ContentPaths : UpsertUpload(p)
  \/ UpdateDone
  \/ UpdateFail
  \/ ExternalEdit

Spec == Init /\ [][Next]_vars

(* ------------------- generateReadme as a pure function ----------------- *)
Pieces == {startString, endString, <<"\n">>, <<"x">>}

\* the documents of at most MaxPieces pieces
Docs == {flat(p) : p \in UNION {[1..k -> Pieces] : k \in 0..MaxPieces}}

ReadmeInit ==
  /\ doc \in Docs
  /\ readme = doc
  /\ content = doc
  /\ lastBadges = <<>>
  /\ lastSize \in Sizes
  /\ calls = 0
  /\ argv = Argv("u", undefined, "", FALSE)
  /\ env = Env(undefined, undefined)
  /\ remote = [p \in RemotePaths |-> NoFile]
  /\ localFs = [p \in LocalPaths |-> NoFile]
  /\ interference = 0
  /\ IdleRun

\* one call generateReadme(content, badges, size) on the result of the last
Render ==
  /\ calls < MaxCalls
  /\ \E bs \in BadgeListsUpTo(MaxBadges) :
       /\ content' = generateReadme(content, bs, lastSize)
       /\ lastBadges' = bs
  /\ readme' = content
  /\ calls' = calls + 1
  /\ UNCHANGED <<doc, lastSize, envVars, runVars>>

ReadmeNext == Render

SpecReadme == ReadmeInit /\ [][ReadmeNext]_vars

(* --------------------- properties of generateReadme -------------------- *)
\* sub occurs in s
Contains(s, sub) ==
  \E i \in 1..(Len(s) - Len(sub) + 1) : SubSeq(s, i, i + Len(sub) - 1) = sub

\* the first position (1-based) at which sub occurs in s
FirstAt(s, sub) ==
  CHOOSE i \in 1..(Len(s) - Len(sub) + 1) :
    /\ SubSeq(s, i, i + Len(sub) - 1) = sub
    /\ \A j \in 1..(i - 1) : SubSeq(s, j, j + Len(sub) - 1) # sub

BothMarkers(s) == Contains(s, startString) /\ Contains(s, endString)

\* the text before the first marker of the span
BeforeSpan(s) ==
  SubSeq(s, 1, Min(FirstAt(s, startString), FirstAt(s, endString)) - 1)

\* the text after the last marker of the span
AfterSpan(s) ==
  SubSeq(s, Max(FirstAt(s, startString) + Len(startString),
                FirstAt(s, endString) + Len(endString)), Len(s))

\* the character right after the old end marker, or undefined at end of text
AfterEndMarker(s) == At(s, FirstAt(s, endString) - 1 + Len(endString))

\* the last call put one more character than the block in place of the span
\* it cut out
NewLineAdded ==
  Len(content) =
    Len(readme) - (FirstAt(readme, endString) + Len(endString) - FirstAt(readme, startString))
      + Len(block(lastBadges, lastSize)) + 1

\* C5: a document with both markers, in either order, comes back as the text
\* before the span, the regenerated block (with or without the newline that
\* follows it) and the text after the span.
C5_MarkerPreservation ==
  (calls > 0 /\ BothMarkers(readme)) =>
    \E nl \in {<<>>, <<"\n">>} :
      content = BeforeSpan(readme) \o block(lastBadges, lastSize) \o nl \o AfterSpan(readme)

\* C6: a document that lacks a marker comes back unchanged.
C6_MarkerAbsence ==
  (calls > 0 /\ ~BothMarkers(readme)) => content = readme

C6_Witness ==
  /\ calls > 0
  /\ Contains(readme, startString)
  /\ ~Contains(readme, endString)
  /\ lastBadges # <<>>
  /\ content = readme

\* C7: a newline follows the regenerated end marker exactly when the
\* character right after the old end marker is not a newline.
C7_TrailingNewline ==
  (calls > 0 /\ BothMarkers(readme)) =>
    (NewLineAdded <=> AfterEndMarker(readme) # "\n")

(* ------------------------ properties of the run ------------------------ *)
\* nothing has interfered since the previous call of update started: no
\* other writer's commit, no injected failure
Quiet == interference = prev.mark

\* the writes upsert has issued for contentPath in this call of update
Writes(p) ==
  {e \in requests : e.by = "upsert" /\ e.method \in {"PUT", "writeFile"} /\ e.contentPath = p}

HasRead(p) == tasks[p].pc \in {"upload", "done", "failed"}

\* C1: after an upsert of a path has completed, a second upsert of the same
\* path with the same content, with no interference in between, reads once,
\* reads that content back and issues no write.
C1_UpsertIdempotent ==
  \A p \in ContentPaths :
    (/\ run >= 2
     /\ prev.tasks[p].pc = "done"
     /\ HasRead(p)
     /\ tasks[p].content = prev.tasks[p].content
     /\ Quiet)
    => /\ tasks[p]._content.text = tasks[p].content
       /\ tasks[p].pc = "done"
       /\ Writes(p) = {}
       /\ Cardinality({e \in requests : e.by = "upsert" /\ e.contentPath = p
                                          /\ e.method \in {"GET", "readFile"}}) = 1

C1_Witness ==
  \E p \in ContentPaths :
    /\ run >= 2
    /\ ~opts.dryrun
    /\ prev.tasks[p].pc = "done"
    /\ prev.tasks[p].wrote
    /\ tasks[p].content = prev.tasks[p].content
    /\ tasks[p].content # <<>>
    /\ tasks[p].pc = "done"
    /\ Quiet

\* C2: a second updateBadges with the same badges after a successful first
\* one, with no interference in between, issues no write at all.
C2_RunIdempotent ==
  (/\ run >= 2
   /\ prev.pc = "done"
   /\ badges = prev.badges
   /\ pc \in {"upserts", "done"}
   /\ Quiet)
  => \A p \in ContentPaths : Writes(p) = {}

\* C3: the sha of every PUT is the sha the read of the same upsert returned,
\* and the PUT goes to the file that read was served from.
C3_ShaThreading ==
  \A e \in requests :
    e.method = "PUT" =>
      /\ HasRead(e.contentPath)
      /\ e.sha = tasks[e.contentPath]._content.sha
      /\ e.sha # undefined => e.path = tasks[e.contentPath]._content.path

\* a PUT carries the sha its own upsert read, which is not the sha that
\* updateBadges read for the README before
C3_Witness ==
  \E e \in requests :
    /\ e.method = "PUT"
    /\ e.contentPath = "readme.md"
    /\ e.sha # undefined
    /\ oldReadme.sha # undefined
    /\ e.sha # oldReadme.sha

\* C4: a read that finds nothing gives the empty string without sha and
\* path; non-empty desired content is then created at the requested path with
\* no sha and the message 'added', empty desired content is not written.
C4_NotFound ==
  \A p \in ContentPaths :
    (HasRead(p) /\ tasks[p].status = "404") =>
      /\ tasks[p]._content = Str(<<>>)
      /\ IF tasks[p].content # <<>>
         THEN /\ Cardinality(Writes(p)) = 1
              /\ \A e \in Writes(p) :
                   /\ e.method = "PUT"
                   /\ e.sha = undefined
                   /\ e.path = p
                   /\ e.message = "chore: " \o p \o " added"
         ELSE Writes(p) = {} /\ tasks[p].pc = "done"

C4_Witness ==
  /\ HasRead(MY_BADGES_JSON_PATH)
  /\ tasks[MY_BADGES_JSON_PATH].status = "404"
  /\ Writes(MY_BADGES_JSON_PATH) # {}
  /\ remote[MY_BADGES_JSON_PATH].exists
  /\ HasRead("readme.md")
  /\ tasks["readme.md"].status = "404"
  /\ tasks["readme.md"].content = <<>>
  /\ tasks["readme.md"].pc = "done"

\* C8: in a dry run every read and write of a published artifact is a local
\* file operation.
C8_DryRunIsolation ==
  opts.dryrun =>
    \A e \in requests :
      e.by \in {"getBadges", "updateBadges", "upsert"} => e.target = "local"

\* C9: a manifest fetch that reports 404 gives the empty list, and any other
\* fetch failure makes getBadges (and update) fail.
C9_LoadErrors ==
  /\ manifestRead.status = "404" => (userBadges = <<>> /\ pc # "getBadges")
  /\ manifestRead.status \notin {"", "ok", "200", "404"} =>
       (pc = "failed" /\ error = "RequestError")

Tiers_(bs) == [i \in 1..Len(bs) |-> bs[i].tier]

\* C10: every badge getBadges returns has a tier: the stored one, or 0 when
\* none is stored; publishing the loaded list and loading again gives the
\* same tiers.
C10_TierNormalization ==
  LET stored == JSONparse(manifestRead.text)
  IN (manifestRead.status = "200" /\ stored.error = "none") =>
       /\ Len(userBadges) = Len(stored.value)
       /\ \A i \in 1..Len(userBadges) :
            /\ "tier" \in DOMAIN userBadges[i]
            /\ userBadges[i].tier =
                 (IF "tier" \in DOMAIN stored.value[i] THEN stored.value[i].tier ELSE 0)
       /\ (/\ run >= 2
           /\ prev.pc = "done"
           /\ prev.userBadges # <<>>
           /\ prev.badges = prev.userBadges
           /\ Quiet)
          => Tiers_(userBadges) = Tiers_(prev.userBadges)

C10_Witness ==
  /\ run >= 2
  /\ ~opts.dryrun
  /\ prev.pc = "done"
  /\ prev.badges = prev.userBadges
  /\ prev.tasks[MY_BADGES_JSON_PATH].pc = "done"
  /\ prev.tasks[MY_BADGES_JSON_PATH].wrote
  /\ Quiet
  /\ manifestRead.status = "200"
  /\ Tiers_(userBadges) = <<0, 2>>

\* the requests upsert has issued for contentPath with one of the methods
Issued(p, methods) ==
  {e \in requests : e.by = "upsert" /\ e.contentPath = p /\ e.method \in methods}

\* the upserts Promise.all has started
Started == {p \in ContentPaths : tasks[p].pc # "none"}

\* C11: the upserts of one updateBadges run side by side; each content path
\* is read and written by one upsert only, no two writes go to the same file,
\* the sha of a write is the one read for its own path and for no other, and
\* update returns only when every upsert it started has completed.
C11_FanOut ==
  /\ \A p \in ContentPaths :
       /\ Cardinality(Issued(p, {"GET", "readFile"})) <= 1
       /\ Cardinality(Issued(p, {"PUT", "writeFile"})) <= 1
       /\ Issued(p, {"GET", "readFile", "PUT", "writeFile"}) # {} => p \in Started
  /\ \A e, f \in requests :
       (e.method = "PUT" /\ f.method = "PUT" /\ e.contentPath # f.contentPath) =>
         /\ e.path # f.path
         /\ e.sha # undefined => e.sha # f.sha
  /\ \A e \in requests :
       (e.method = "PUT" /\ e.sha # undefined) =>
         /\ e.sha = tasks[e.contentPath]._content.sha
         /\ \A q \in Started \ {e.contentPath} : tasks[q]._content.sha # e.sha
  /\ (run >= 1 /\ pc = "done") => \A p \in Started : tasks[p].pc = "done"

\* two writes with a sha are in flight while the upsert of a badge page has
\* completed and the one of another page has not read yet
C11_Witness ==
  /\ pc = "upserts"
  /\ tasks[MY_BADGES_JSON_PATH].pc = "upload"
  /\ tasks[MY_BADGES_JSON_PATH]._content.sha # undefined
  /\ tasks["readme.md"].pc = "upload"
  /\ tasks["readme.md"]._content.sha # undefined
  /\ tasks[badgePath("a")].pc = "done"
  /\ Writes(badgePath("a")) # {}
  /\ tasks[badgePath("b")].pc = "read"

\* C12: once the write of one path has failed, update never returns
\* normally, and when it has ended it has ended with the write's error.
C12_WriteFailure ==
  (\E p \in ContentPaths : tasks[p].pc = "failed") =>
    /\ pc \in {"upserts", "failed"}
    /\ pc = "failed" => error = "write failed"

\* the repository has rejected the README write, whose sha another writer's
\* commit had made stale, and update has failed
C12_Witness ==
  /\ pc = "failed"
  /\ error = "write failed"
  /\ ~opts.dryrun
  /\ tasks["readme.md"].pc = "failed"
  /\ tasks["readme.md"].status = "200"
  /\ tasks["readme.md"]._content.sha # shaOf(README_FILE)
  /\ \A e \in requests : ~IsFault(e.status)

\* C13: a call of update without any user fails with 'Specify username'
\* before it has sent a request or touched a file, with or without a data
\* file.
C13_MissingIdentity ==
  (run >= 1 /\ opts.user = undefined) =>
    /\ pc \in {"getData", "failed"}
    /\ pc = "failed" => error = "Specify username"
    /\ requests = {}

\* C14: a read of upsert that fails for another reason than not-found gives
\* the empty string without sha and path, and upsert goes on: non-empty
\* desired content is written without sha, empty desired content is not
\* written, and the upsert does not end at the read.
C14_ReadFailure ==
  \A p \in ContentPaths :
    (HasRead(p) /\ IsFault(tasks[p].status)) =>
      /\ tasks[p]._content = Str(<<>>)
      /\ IF tasks[p].content # <<>>
         THEN /\ Cardinality(Writes(p)) = 1
              /\ \A e \in Writes(p) : e.sha = undefined /\ e.body # <<>>
         ELSE Writes(p) = {} /\ tasks[p].pc = "done"

\* the manifest read of upsert got status 500 although the manifest exists,
\* and the manifest is written without sha
C14_Witness ==
  /\ HasRead(MY_BADGES_JSON_PATH)
  /\ tasks[MY_BADGES_JSON_PATH].status = "500"
  /\ remote[MY_BADGES_JSON_PATH].exists
  /\ \E e \in Writes(MY_BADGES_JSON_PATH) : e.method = "PUT" /\ e.sha = undefined

\* C15: every write of the README carries the sha of the README version
\* updateBadges rendered the written text from, so that a README another
\* writer has committed since is not replaced.
C15_NoLostUpdate ==
  \A e \in requests :
    (e.method = "PUT" /\ e.contentPath = "readme.md") =>
      e.sha = oldReadme.sha

\* the paths updateBadges syncs for a badge list
SyncedPaths(bs) ==
  {MY_BADGES_JSON_PATH, "readme.md"} \cup {badgePath(bs[i].id) : i \in 1..Len(bs)}

\* the files a sync of these paths can write: the README alias is served from
\* README_FILE
SyncedFiles(bs) == SyncedPaths(bs) \cup {README_FILE}

\* C16: updateBadges starts one upsert for the manifest, one for the README
\* and one for the page of each distinct badge id, and no other; each reads
\* once and writes at most once; no step changes a file at another path and no
\* step deletes a file.
C16_PathSet ==
  [][/\ pc = "updateBadges" =>
          /\ {p \in ContentPaths : tasks'[p].pc # "none"} = SyncedPaths(badges)
          /\ \A p \in SyncedPaths(badges) : tasks'[p].pc = "read"
     /\ \A e \in requests' \ requests :
          e.by = "upsert" =>
            /\ e.contentPath \in SyncedPaths(badges)
            /\ \A f \in requests : ~(f.by = "upsert" /\ f.contentPath = e.contentPath)
     /\ \A f \in RemotePaths :
          remote'[f] # remote[f] => (f \in SyncedFiles(badges) /\ remote'[f].exists)
     /\ \A f \in LocalPaths :
          localFs'[f] # localFs[f] =>
            /\ localFs'[f].exists
            /\ f \in SyncedFiles(badges) \/ pc = "getData"]_vars

\* the first run published the pages of a and b, the second run has synced a
\* shorter list and the page of b is still as it was published
C16_Witness ==
  /\ run >= 2
  /\ pc = "done"
  /\ prev.tasks[badgePath("b")].pc = "done"
  /\ prev.tasks[badgePath("b")].wrote
  /\ \A i \in 1..Len(badges) : badges[i].id # "b"
  /\ Writes(MY_BADGES_JSON_PATH) # {}
  /\ tasks[badgePath("b")].pc = "none"
  /\ remote[badgePath("b")] = File(prev.tasks[badgePath("b")].content, 1)

\* a list that names one id twice is synced with one upsert for that id,
\* holding the page of the later badge
C16_WitnessRepeated ==
  /\ Len(badges) = 2
  /\ badges[1].id = badges[2].id
  /\ pc = "done"
  /\ Cardinality(Started) = 3
  /\ remote[badgePath("b")] = File(page(badges[2]), 1)
  /\ page(badges[2]) # page(badges[1])

\* C17: the README is read through the readme endpoint; when that read has
\* returned a path, the README write goes to that path with the sha of that
\* file and leaves the path 'readme.md' alone; when it has returned no path,
\* the write goes to 'readme.md'.
C17_ReadmeAlias ==
  [][LET _content == tasks'["readme.md"]._content
     IN /\ \A e \in requests' :
             (e.by = "upsert" /\ e.contentPath = "readme.md") =>
               IF e.method = "GET" THEN e.endpoint = "readme"
               ELSE IF e.method = "PUT"
               THEN IF _content.path # undefined
                    THEN e.path = _content.path /\ e.sha = _content.sha
                    ELSE e.path = "readme.md" /\ e.sha = undefined
               ELSE TRUE
        /\ (_content.path = README_FILE /\ tasks["readme.md"].pc = "upload")
             => remote'["readme.md"] = remote["readme.md"]]_vars

\* the README write has replaced README.md, the file the read had named, and
\* there is no file readme.md
C17_Witness ==
  /\ tasks["readme.md"].pc = "done"
  /\ tasks["readme.md"]._content.path = README_FILE
  /\ \E e \in Writes("readme.md") :
       e.method = "PUT" /\ e.path = README_FILE /\ e.sha = "README.md@1"
  /\ remote[README_FILE].version = 2
  /\ ~remote["readme.md"].exists

\* how often sub occurs in s
Count(s, sub) ==
  Cardinality({i \in 1..(Len(s) - Len(sub) + 1) : SubSeq(s, i, i + Len(sub) - 1) = sub})

\* s has one start marker and, after it, one end marker
Managed(s) ==
  /\ Count(s, startString) = 1
  /\ Count(s, endString) = 1
  /\ FirstAt(s, startString) < FirstAt(s, endString)

\* the text between the start marker and the end marker
Between(s) ==
  SubSeq(s, FirstAt(s, startString) + Len(startString), FirstAt(s, endString) - 1)

PublishRequests == {e \in requests : e.by \in {"updateBadges", "upsert"}}

\* getData has returned the snapshot
SnapshotLoaded ==
  \E e \in requests : e.by = "getData" /\ e.status \in {"ok", "200"} /\ e.method \in {"readFile", "GET"}

\* no upsert of any path is started or has issued anything
NothingPublished == PublishRequests = {} /\ Started = {}

\* updateBadges runs only after getSnapshot has returned
C19_Ordering ==
  ~NothingPublished =>
    (SnapshotLoaded /\ error \notin {"Data file not found", "Specify username", "RequestError"})

\* a run whose snapshot cannot be loaded calls neither getBadges nor
\* updateBadges
C19_SnapshotFailure ==
  error \in {"Data file not found", "Specify username", "RequestError"} =>
    /\ pc = "failed"
    /\ NothingPublished
    /\ \A e \in requests : e.by # "getBadges"

\* a run whose load of the published badges fails does not call updateBadges
C19_PublishedFailure ==
  IsFault(manifestRead.status) => (pc = "failed" /\ NothingPublished)

\* C19: no read or write of updateBadges is issued before the snapshot and
\* the published badges are loaded, and a run in which one of the two loads
\* fails ends there, with no call of updateBadges and no write.
C19_LoadBeforePublish ==
  /\ C19_Ordering
  /\ C19_SnapshotFailure
  /\ C19_PublishedFailure

====
